---- MODULE Spec2Model ----
(***************************************************************************)
(* Model of pkg/route/secret: secretMonitor (the multiplexer, one          *)
(* singleItemMonitor per ObjectKey) and singleItemMonitor (one shared      *)
(* informer, a handler counter, a stopped flag and a stop channel).        *)
(*                                                                         *)
(* Spec        : goroutines calling the exported SecretMonitor methods     *)
(*               (AddSecretEventHandler, RemoveSecretEventHandler,         *)
(*               GetSecret), plus the informer goroutines.                 *)
(* SpecMonitor : goroutines calling the methods of one singleItemMonitor   *)
(*               directly, as the package's own tests do.                  *)
(* SpecCache   : adds and reads while secrets are created and deleted.     *)
(* SpecEvents  : one singleItemMonitor whose handlers log what they get.   *)
(* SpecAllKeys : Spec with keys of two namespaces.                         *)
(***************************************************************************)
EXTENDS Integers, FiniteSets, Sequences, TLC

\* ------------------------------------------------------------------ bounds
MaxCalls == 4        \* calls made in one behaviour, all goroutines together
MaxEvents == 3       \* entries a logging handler's log keeps

Procs == {"g1", "g2"}     \* the goroutines calling into the package
NoProc == "none"          \* a lock nobody holds
MonIds == 1..MaxCalls     \* a call creates at most one singleItemMonitor
Handles == 1..MaxCalls    \* a call registers at most one listener
Absent == "absent"        \* no object under the key

\* ------------------------------------------------------------- ObjectKey
Namespaces == {"a"}
Names == {"r_s", "rs"}
NewObjectKey(namespace, name) == [Namespace |-> namespace, Name |-> name]
Keys == {NewObjectKey(ns, n) : ns \in Namespaces, n \in Names}
AnyKey == NewObjectKey("a", "r_s")

\* Keys with one more, of another namespace: they differ in the namespace, in
\* the name, or in both.
AllKeys == Keys \cup {NewObjectKey("b", "r_s")}

\* The *v1.Secret objects the API server can hold under a key: the informer
\* selects on namespace and metadata.name, so an object it delivers carries the
\* name of the key it was listed for.
Payloads(k) == {k.Name}

NoMonitor == 0       \* `exists` is false: the key is not in the monitors map
BadHandle == 0       \* GetHandler() of a registration no informer issued
TheMonitor == 1      \* the monitor the package's tests build with fakeMonitor

\* A SecretEventHandlerRegistration as a caller holds it: nil, or a value
\* with GetKey() = key and GetHandler() = h.
NilReg == [isNil |-> TRUE, key |-> AnyKey, h |-> BadHandle]
secretEventHandlerRegistration(k, h) == [isNil |-> FALSE, key |-> k, h |-> h]

VARIABLES
    monitors,      \* secretMonitor.monitors: Keys -> monitor id or NoMonitor
    lockW,         \* secretMonitor.lock: the goroutine holding it for writing
    lockR,         \* secretMonitor.lock: the goroutines holding it for reading
    nextMon,       \* id the next newSingleItemMonitor gets
    mkey,          \* singleItemMonitor.key
    stopped,       \* singleItemMonitor.stopped
    numHandlers,   \* singleItemMonitor.numHandlers
    stopCh,        \* singleItemMonitor.stopCh: "open" or "closed"
    mlock,         \* singleItemMonitor.lock: the goroutine holding it
    listeners,     \* informer: the handles currently registered
    loop,          \* informer.Run goroutine: "none", "launched", "running", "exited"
    synced,        \* informer.HasSynced()
    store,         \* informer.GetStore(): the object under the monitor's key
    remote,        \* the secret on the API server, per key
    nextHandle,    \* id the next informer registration gets
    hkey,          \* objectKey of an issued registration
    hmon,          \* the monitor whose informer issued the handle
    pc,            \* per goroutine: "idle", "wait" (blocked on the lock), "locked"
    op,            \* per goroutine: the call in progress
    ret,           \* per goroutine: its last call and what it returned
    nCalls,        \* calls made so far
    starts,        \* per monitor: StartInformer goroutines launched
    stopTrue,      \* per monitor: StopInformer calls that returned true
    stopFalse,     \* per monitor: StopInformer calls that returned false
    okAdds,        \* per monitor: AddEventHandler calls that returned a nil error
    okRemoves,     \* per monitor: RemoveEventHandler calls that returned a nil error
    tornDownUnder, \* the goroutines blocked in GetSecret on s.lock while a
                   \* RemoveSecretEventHandler stopped the monitor of their key
    logging,       \* the handlers passed log what they are handed (TestMonitor's
                   \* handler) or ignore it (cache.ResourceEventHandlerFuncs{})
    received       \* per handle: the notifications its handler was handed, then
                   \* "removed" once its removal has returned nil

muxVars == <<monitors, lockW, lockR>>
monVars == <<nextMon, mkey, stopped, numHandlers, stopCh, mlock>>
infVars == <<listeners, loop, synced, store, remote>>
regVars == <<nextHandle, hkey, hmon>>
logVars == <<logging, received>>
procVars == <<pc, op, ret, nCalls>>
histVars == <<starts, stopTrue, stopFalse, okAdds, okRemoves, tornDownUnder>>
vars == <<muxVars, monVars, infVars, regVars, procVars, histVars, logVars>>

\* A call: its name, its arguments (key and accept for an add, reg for a remove
\* or a get, mon for a call on a singleItemMonitor), and, once it has returned,
\* its results (err, and reg or val).
NoOp == [name |-> "none", key |-> AnyKey, accept |-> FALSE, reg |-> NilReg,
         mon |-> NoMonitor, err |-> "none", out |-> NilReg, val |-> Absent]

Created == 1..(nextMon - 1)
Issued == 1..(nextHandle - 1)

\* The registrations a caller can present: nil, one it was given earlier, or
\* one of its own making whose GetHandler() is not an informer's handle.
Presentable ==
    {NilReg}
    \cup {secretEventHandlerRegistration(hkey[h], h) : h \in Issued}
    \cup {secretEventHandlerRegistration(k, BadHandle) : k \in Keys}

\* ----------------------------------------------------------------- Init
InitCommon ==
    /\ lockW = NoProc
    /\ lockR = {}
    /\ stopped = [m \in MonIds |-> FALSE]
    /\ numHandlers = [m \in MonIds |-> 0]
    /\ stopCh = [m \in MonIds |-> "open"]
    /\ mlock = [m \in MonIds |-> NoProc]
    /\ listeners = [m \in MonIds |-> {}]
    /\ loop = [m \in MonIds |-> "none"]
    /\ synced = [m \in MonIds |-> FALSE]
    /\ store = [m \in MonIds |-> Absent]
    /\ nextHandle = 1
    /\ hkey = [h \in Handles |-> AnyKey]
    /\ hmon = [h \in Handles |-> NoMonitor]
    /\ pc = [p \in Procs |-> "idle"]
    /\ op = [p \in Procs |-> NoOp]
    /\ ret = [p \in Procs |-> NoOp]
    /\ nCalls = 0
    /\ starts = [m \in MonIds |-> 0]
    /\ stopTrue = [m \in MonIds |-> 0]
    /\ stopFalse = [m \in MonIds |-> 0]
    /\ okAdds = [m \in MonIds |-> 0]
    /\ okRemoves = [m \in MonIds |-> 0]
    /\ tornDownUnder = {}
    /\ received = [h \in Handles |-> <<>>]

\* NewSecretMonitor: an empty monitors map and no singleItemMonitor yet; the
\* secrets the callers will name exist on the API server.
Init ==
    /\ InitCommon
    /\ monitors = [k \in Keys |-> NoMonitor]
    /\ nextMon = 1
    /\ mkey = [m \in MonIds |-> AnyKey]
    /\ remote = [k \in Keys |-> k.Name]
    /\ logging = FALSE

\* One singleItemMonitor built by newSingleItemMonitor for some key and used
\* directly, with no secretMonitor around it; the secret may or may not exist.
InitMonitor ==
    /\ InitCommon
    /\ monitors = [k \in Keys |-> NoMonitor]
    /\ nextMon = 2
    /\ \E k \in Keys : mkey = [m \in MonIds |-> IF m = TheMonitor THEN k ELSE AnyKey]
    /\ remote \in [Keys -> Names \cup {Absent}]
    /\ \A k \in Keys : remote[k] \in Payloads(k) \cup {Absent}
    /\ logging = FALSE

\* --------------------------------------------- the shared informer
\* A logging handler appends what it is handed to its log, up to MaxEvents.
Logged(log, e) == IF Len(log) < MaxEvents THEN Append(log, e) ELSE log

\* The log of a handle whose removal has returned nil ends with "removed".
Closed(log) == Len(log) > 0 /\ log[Len(log)] = "removed"

\* The notification for a change of the object in the store.
Event(old, new) ==
    IF old = Absent THEN "add" ELSE IF new = Absent THEN "delete" ELSE "update"

\* The informer hands a notification to every listener registered with it.
Notify(m, e) ==
    IF logging
    THEN [h \in Handles |->
             IF h \in listeners[m] THEN Logged(received[h], e) ELSE received[h]]
    ELSE received

\* A listener added to an informer gets an add notification for the object
\* already in the store.
Replay(m) == IF logging /\ store[m] # Absent THEN <<"add">> ELSE <<>>

\* cache.SharedInformer as this package uses it.  AddEventHandler returns an
\* error when the informer refuses the handler (accept = FALSE) or has already
\* stopped; RemoveEventHandler is idempotent: it returns an error only for a
\* handle that is not one of an informer's, and nil for a handle that is not
\* (or no longer) registered.
InformerAddEventHandlerErr(m, accept) ==
    IF loop[m] = "exited" \/ ~accept THEN "informer" ELSE "ok"

InformerRemoveEventHandlerErr(h) ==
    IF h = BadHandle THEN "informer" ELSE "ok"

\* ------------------------------------------------ singleItemMonitor
\* Mutant: the `if i.stopped` check is missing.
AddEventHandlerErrUnguarded(m, accept) == InformerAddEventHandlerErr(m, accept)

\* AddEventHandler: the error it returns.
AddEventHandlerErr(m, accept) ==
    IF stopped[m] THEN "stopped" ELSE InformerAddEventHandlerErr(m, accept)

\* Mutant: numHandlers.Add(1) comes before the informer's error is looked at.
AddEventHandlerCountsFirst(m, accept) ==
    IF AddEventHandlerErr(m, accept) = "ok"
    THEN /\ listeners' = [listeners EXCEPT ![m] = @ \cup {nextHandle}]
         /\ numHandlers' = [numHandlers EXCEPT ![m] = @ + 1]
         /\ nextHandle' = nextHandle + 1
         /\ hkey' = [hkey EXCEPT ![nextHandle] = mkey'[m]]
         /\ hmon' = [hmon EXCEPT ![nextHandle] = m]
         /\ okAdds' = [okAdds EXCEPT ![m] = @ + 1]
         /\ received' = [received EXCEPT ![nextHandle] = Replay(m)]
    ELSE /\ numHandlers' = [numHandlers EXCEPT ![m] =
                               IF stopped[m] THEN @ ELSE @ + 1]
         /\ UNCHANGED <<listeners, nextHandle, hkey, hmon, okAdds, received>>

\* Mutant: numHandlers.Add(1) is missing.
AddEventHandlerUncounted(m, accept) ==
    IF AddEventHandlerErr(m, accept) = "ok"
    THEN /\ listeners' = [listeners EXCEPT ![m] = @ \cup {nextHandle}]
         /\ nextHandle' = nextHandle + 1
         /\ hkey' = [hkey EXCEPT ![nextHandle] = mkey'[m]]
         /\ hmon' = [hmon EXCEPT ![nextHandle] = m]
         /\ okAdds' = [okAdds EXCEPT ![m] = @ + 1]
         /\ received' = [received EXCEPT ![nextHandle] = Replay(m)]
         /\ UNCHANGED numHandlers
    ELSE UNCHANGED <<listeners, numHandlers, nextHandle, hkey, hmon, okAdds,
                     received>>

\* AddEventHandler: registers with the informer, numHandlers.Add(1), and
\* returns a registration carrying i.key.
AddEventHandler(m, accept) ==
    IF AddEventHandlerErr(m, accept) = "ok"
    THEN /\ listeners' = [listeners EXCEPT ![m] = @ \cup {nextHandle}]
         /\ numHandlers' = [numHandlers EXCEPT ![m] = @ + 1]
         /\ nextHandle' = nextHandle + 1
         /\ hkey' = [hkey EXCEPT ![nextHandle] = mkey'[m]]
         /\ hmon' = [hmon EXCEPT ![nextHandle] = m]
         /\ okAdds' = [okAdds EXCEPT ![m] = @ + 1]
         /\ received' = [received EXCEPT ![nextHandle] = Replay(m)]
    ELSE UNCHANGED <<listeners, numHandlers, nextHandle, hkey, hmon, okAdds,
                     received>>

AddEventHandlerReg(m, accept) ==
    IF AddEventHandlerErr(m, accept) = "ok"
    THEN secretEventHandlerRegistration(mkey'[m], nextHandle)
    ELSE NilReg

\* Mutant: the `if i.stopped` check is missing.
RemoveEventHandlerErrUnguarded(m, reg) ==
    IF reg.isNil THEN "panic" ELSE InformerRemoveEventHandlerErr(reg.h)

\* RemoveEventHandler: the error it returns; "panic" is the nil dereference of
\* handle.GetHandler() on a nil registration.
RemoveEventHandlerErr(m, reg) ==
    IF reg.isNil THEN "panic"
    ELSE IF stopped[m] THEN "stopped"
    ELSE InformerRemoveEventHandlerErr(reg.h)

\* Mutant: numHandlers.Add(-1) comes before the informer's error is looked at.
RemoveEventHandlerCountsFirst(m, reg) ==
    IF RemoveEventHandlerErr(m, reg) = "ok"
    THEN /\ listeners' = [listeners EXCEPT ![m] = @ \ {reg.h}]
         /\ numHandlers' = [numHandlers EXCEPT ![m] = @ - 1]
         /\ okRemoves' = [okRemoves EXCEPT ![m] = @ + 1]
         /\ received' = IF logging /\ ~Closed(received[reg.h])
                        THEN [received EXCEPT ![reg.h] = Append(@, "removed")]
                        ELSE received
    ELSE /\ numHandlers' = [numHandlers EXCEPT ![m] =
                               IF stopped[m] THEN @ ELSE @ - 1]
         /\ UNCHANGED <<listeners, okRemoves, received>>

\* Mutant: the handler is counted as removed but stays registered with the
\* informer.
RemoveEventHandlerKeepsListener(m, reg) ==
    IF RemoveEventHandlerErr(m, reg) = "ok"
    THEN /\ numHandlers' = [numHandlers EXCEPT ![m] = @ - 1]
         /\ okRemoves' = [okRemoves EXCEPT ![m] = @ + 1]
         /\ received' = IF logging /\ ~Closed(received[reg.h])
                        THEN [received EXCEPT ![reg.h] = Append(@, "removed")]
                        ELSE received
         /\ UNCHANGED listeners
    ELSE UNCHANGED <<listeners, numHandlers, okRemoves, received>>

\* RemoveEventHandler: unregisters from the informer and numHandlers.Add(-1).
RemoveEventHandler(m, reg) ==
    IF RemoveEventHandlerErr(m, reg) = "ok"
    THEN /\ listeners' = [listeners EXCEPT ![m] = @ \ {reg.h}]
         /\ numHandlers' = [numHandlers EXCEPT ![m] = @ - 1]
         /\ okRemoves' = [okRemoves EXCEPT ![m] = @ + 1]
         /\ received' = IF logging /\ ~Closed(received[reg.h])
                        THEN [received EXCEPT ![reg.h] = Append(@, "removed")]
                        ELSE received
    ELSE UNCHANGED <<listeners, numHandlers, okRemoves, received>>

\* Mutant: close(i.stopCh) is missing.
StopInformerNoClose(m) ==
    IF ~stopped[m]
    THEN /\ stopped' = [stopped EXCEPT ![m] = TRUE]
         /\ stopTrue' = [stopTrue EXCEPT ![m] = @ + 1]
         /\ UNCHANGED <<stopCh, stopFalse>>
    ELSE /\ stopFalse' = [stopFalse EXCEPT ![m] = @ + 1]
         /\ UNCHANGED <<stopped, stopCh, stopTrue>>

\* Mutant: the `if i.stopped` check is missing.
StopInformerReturnsAlways(m) == TRUE

\* StopInformer: what it returns.
StopInformerReturns(m) == ~stopped[m]

\* Mutant: the monitor is left running.
StopInformerSkipped(m) == UNCHANGED <<stopped, stopCh, stopTrue, stopFalse>>

\* StopInformer: sets stopped and closes stopCh, once.
StopInformer(m) ==
    IF StopInformerReturns(m)
    THEN /\ stopped' = [stopped EXCEPT ![m] = TRUE]
         /\ stopCh' = [stopCh EXCEPT ![m] = "closed"]
         /\ stopTrue' = [stopTrue EXCEPT ![m] = @ + 1]
         /\ UNCHANGED stopFalse
    ELSE /\ stopFalse' = [stopFalse EXCEPT ![m] = @ + 1]
         /\ UNCHANGED <<stopped, stopCh, stopTrue>>

\* Mutant: the lookup never finds the object.
GetItemNeverExists(m) == [item |-> Absent, exists |-> FALSE]

\* Mutant: `exists` is always true.
GetItemAlwaysExists(m) == [item |-> store[m], exists |-> TRUE]

\* Mutant: the lookup goes to the store of the first monitor created.
GetItemOfFirst(m) == [item |-> store[TheMonitor], exists |-> store[TheMonitor] # Absent]

\* GetItem: informer.GetStore().GetByKey(namespace/name): (item, exists).
GetItem(m) == [item |-> store[m], exists |-> store[m] # Absent]

\* Mutant: `go m.StartInformer()` is missing.
newSingleItemMonitorNotStarted(k) ==
    /\ mkey' = [mkey EXCEPT ![nextMon] = k]
    /\ nextMon' = nextMon + 1
    /\ UNCHANGED <<loop, starts>>

\* newSingleItemMonitor(key, informer) followed by `go m.StartInformer()`.
newSingleItemMonitor(k) ==
    /\ mkey' = [mkey EXCEPT ![nextMon] = k]
    /\ nextMon' = nextMon + 1
    /\ loop' = [loop EXCEPT ![nextMon] = "launched"]
    /\ starts' = [starts EXCEPT ![nextMon] = @ + 1]

\* ------------------------------------------------------ secretMonitor
\* s.lock.Lock() / s.lock.RLock()
CanLock == lockW = NoProc /\ lockR = {}
CanRLock == lockW = NoProc

\* Mutant: the `exists` result of the map lookup is ignored.
NeedsNewMonitorAlways(k) == TRUE

\* Mutant: a monitor without handlers is replaced by a new one.
NeedsNewMonitorIfUnused(k) ==
    monitors[k] = NoMonitor \/ numHandlers[monitors[k]] = 0

\* addSecretEventHandler: `m, exists := s.monitors[key]; if !exists {...}`
NeedsNewMonitor(k) == monitors[k] = NoMonitor

\* Mutant: `< 0` for `<= 0`.
NoHandlerLeftStrict(n) == n < 0

\* RemoveSecretEventHandler: `if m.numHandlers.Load() <= 0`
NoHandlerLeft(n) == n <= 0

\* Mutant: the delete is forgotten.
DeleteKeyForgotten(k) == monitors

\* Mutant: the map is emptied.
DeleteKeyAll(k) == [kk \in DOMAIN monitors |-> NoMonitor]

\* RemoveSecretEventHandler: `delete(s.monitors, key)`
DeleteKey(k) == [monitors EXCEPT ![k] = NoMonitor]

\* Mutant: GetSecret returns without s.lock.RUnlock().
RUnlockForgotten(p) == lockR

\* GetSecret: `defer s.lock.RUnlock()`
RUnlock(p) == lockR \ {p}

\* Mutant: the nil check is missing.
IsNilNever(reg) == FALSE

\* RemoveSecretEventHandler, GetSecret: `if handlerRegistration == nil`
IsNil(reg) == reg.isNil

\* Mutant: the `TODO return error` of RemoveSecretEventHandler carried out.
AlreadyRemovedErrTodo == "removed"

\* RemoveSecretEventHandler: `if !exists { ...; return nil }`
AlreadyRemovedErr == "ok"

\* Mutant: GetSecret reports a missing monitor as a missing secret.
NoMonitorErrConflated == "notfound"

\* GetSecret: `if !exists { return nil, fmt.Errorf("secret monitor doesn't
\* exist for key %v", key) }`
NoMonitorErr == "nomonitor"

\* A goroutine makes a call: it blocks on the lock the method takes first.
Call(p, o) ==
    /\ pc[p] = "idle"
    /\ nCalls < MaxCalls
    /\ pc' = [pc EXCEPT ![p] = "wait"]
    /\ op' = [op EXCEPT ![p] = o]
    /\ ret' = [ret EXCEPT ![p] = NoOp]
    /\ nCalls' = nCalls + 1
    /\ UNCHANGED <<muxVars, monVars, infVars, regVars, histVars, logVars>>

\* The call returns r: the deferred Unlock has run.
Return(p, r) ==
    /\ pc' = [pc EXCEPT ![p] = "idle"]
    /\ ret' = [ret EXCEPT ![p] = r]
    /\ op' = [op EXCEPT ![p] = NoOp]
    /\ UNCHANGED nCalls

CallAddSecretEventHandler(p) ==
    \E k \in Keys, accept \in BOOLEAN :
        Call(p, [NoOp EXCEPT !.name = "Add", !.key = k, !.accept = accept])

CallRemoveSecretEventHandler(p) ==
    \E reg \in Presentable :
        Call(p, [NoOp EXCEPT !.name = "Remove", !.reg = reg])

CallGetSecret(p) ==
    \E reg \in Presentable :
        Call(p, [NoOp EXCEPT !.name = "Get", !.reg = reg])

Lock(p) ==
    /\ pc[p] = "wait"
    /\ op[p].name \in {"Add", "Remove"}
    /\ CanLock
    /\ lockW' = p
    /\ pc' = [pc EXCEPT ![p] = "locked"]
    /\ UNCHANGED <<monitors, lockR, monVars, infVars, regVars, op, ret, nCalls,
                   histVars, logVars>>

RLock(p) ==
    /\ pc[p] = "wait"
    /\ op[p].name = "Get"
    /\ CanRLock
    /\ lockR' = lockR \cup {p}
    /\ pc' = [pc EXCEPT ![p] = "locked"]
    /\ UNCHANGED <<monitors, lockW, monVars, infVars, regVars, op, ret, nCalls,
                   histVars, logVars>>

\* addSecretEventHandler, from the map lookup to the deferred Unlock.
AddSecretEventHandler(p) ==
    /\ pc[p] = "locked"
    /\ op[p].name = "Add"
    /\ lockW = p
    /\ LET k == op[p].key
           create == NeedsNewMonitor(k)
           m == IF create THEN nextMon ELSE monitors[k]
       IN /\ IF create
             THEN /\ newSingleItemMonitor(k)
                  /\ monitors' = [monitors EXCEPT ![k] = m]
             ELSE UNCHANGED <<monitors, mkey, nextMon, loop, starts>>
          /\ mlock[m] = NoProc
          /\ AddEventHandler(m, op[p].accept)
          /\ Return(p, [op[p] EXCEPT !.mon = m,
                                     !.err = AddEventHandlerErr(m, op[p].accept),
                                     !.out = AddEventHandlerReg(m, op[p].accept)])
    /\ lockW' = NoProc
    /\ UNCHANGED <<lockR, stopped, stopCh, mlock, synced, store, remote,
                   stopTrue, stopFalse, okRemoves, tornDownUnder, logging>>

\* RemoveSecretEventHandler, from the nil check to the deferred Unlock.
RemoveSecretEventHandler(p) ==
    /\ pc[p] = "locked"
    /\ op[p].name = "Remove"
    /\ lockW = p
    /\ LET reg == op[p].reg
           m == monitors[reg.key]
       IN IF IsNil(reg)
          THEN /\ Return(p, [op[p] EXCEPT !.err = "nil"])
               /\ UNCHANGED <<monitors, stopped, stopCh, listeners, numHandlers,
                              stopTrue, stopFalse, okRemoves, received>>
          ELSE IF m = NoMonitor
          THEN /\ Return(p, [op[p] EXCEPT !.err = AlreadyRemovedErr])
               /\ UNCHANGED <<monitors, stopped, stopCh, listeners, numHandlers,
                              stopTrue, stopFalse, okRemoves, received>>
          ELSE /\ mlock[m] = NoProc
               /\ RemoveEventHandler(m, reg)
               /\ IF RemoveEventHandlerErr(m, reg) = "ok"
                     /\ NoHandlerLeft(numHandlers'[m])
                  THEN /\ StopInformer(m)
                       /\ monitors' = DeleteKey(reg.key)
                  ELSE UNCHANGED <<monitors, stopped, stopCh, stopTrue, stopFalse>>
               /\ Return(p, [op[p] EXCEPT !.mon = m,
                                          !.err = RemoveEventHandlerErr(m, reg)])
    /\ lockW' = NoProc
    /\ tornDownUnder' = tornDownUnder \cup
           {q \in Procs : /\ pc[q] = "wait"
                          /\ op[q].name = "Get"
                          /\ ~op[q].reg.isNil
                          /\ monitors[op[q].reg.key] # NoMonitor
                          /\ ~stopped[monitors[op[q].reg.key]]
                          /\ stopped'[monitors[op[q].reg.key]]}
    /\ UNCHANGED <<lockR, nextMon, mkey, mlock, loop, synced, store, remote,
                   regVars, starts, okAdds, logging>>

\* GetSecret, from the nil check to the return: what it returns.
GetSecretResult(o) ==
    LET m == monitors[o.reg.key]
    IN IF IsNil(o.reg) THEN [o EXCEPT !.err = "nil"]
       ELSE IF m = NoMonitor THEN [o EXCEPT !.err = NoMonitorErr]
       ELSE IF ~GetItem(m).exists THEN [o EXCEPT !.err = "notfound", !.mon = m]
       ELSE [o EXCEPT !.err = "ok", !.val = GetItem(m).item, !.mon = m]

GetSecret(p) ==
    /\ pc[p] = "locked"
    /\ op[p].name = "Get"
    /\ p \in lockR
    /\ Return(p, GetSecretResult(op[p]))
    /\ lockR' = RUnlock(p)
    /\ tornDownUnder' = tornDownUnder \ {p}
    /\ UNCHANGED <<monitors, lockW, monVars, infVars, regVars, starts, stopTrue,
                   stopFalse, okAdds, okRemoves, logVars>>

\* --------------------------------------------- the informer goroutines
\* StartInformer: i.informer.Run(i.stopCh) runs and completes its initial
\* list: the store takes the remote object and HasSynced becomes true.
StartInformer(m) ==
    /\ loop[m] = "launched"
    /\ stopCh[m] = "open"
    /\ loop' = [loop EXCEPT ![m] = "running"]
    /\ synced' = [synced EXCEPT ![m] = TRUE]
    /\ store' = [store EXCEPT ![m] = remote[mkey[m]]]
    /\ received' = IF remote[mkey[m]] # Absent THEN Notify(m, "add") ELSE received
    /\ UNCHANGED <<muxVars, monVars, listeners, remote, regVars, procVars,
                   histVars, logging>>

\* informer.Run returns once stopCh is closed.
InformerExit(m) ==
    /\ loop[m] \in {"launched", "running"}
    /\ stopCh[m] = "closed"
    /\ loop' = [loop EXCEPT ![m] = "exited"]
    /\ UNCHANGED <<muxVars, monVars, listeners, synced, store, remote, regVars,
                   procVars, histVars, logVars>>

\* A watch event: the store follows the remote object.
InformerWatch(m) ==
    /\ loop[m] = "running"
    /\ stopCh[m] = "open"
    /\ store[m] # remote[mkey[m]]
    /\ store' = [store EXCEPT ![m] = remote[mkey[m]]]
    /\ received' = Notify(m, Event(store[m], remote[mkey[m]]))
    /\ UNCHANGED <<muxVars, monVars, listeners, loop, synced, remote, regVars,
                   procVars, histVars, logging>>

\* The secret is created or deleted on the API server.
RemoteChange(k) ==
    /\ \E v \in Payloads(k) \cup {Absent} :
          /\ v # remote[k]
          /\ remote' = [remote EXCEPT ![k] = v]
    /\ UNCHANGED <<muxVars, monVars, listeners, loop, synced, store, regVars,
                   procVars, histVars, logVars>>

\* ------------------------------------- the exported SecretMonitor methods
Next ==
    \/ \E p \in Procs : CallAddSecretEventHandler(p)
    \/ \E p \in Procs : CallRemoveSecretEventHandler(p)
    \/ \E p \in Procs : CallGetSecret(p)
    \/ \E p \in Procs : Lock(p)
    \/ \E p \in Procs : RLock(p)
    \/ \E p \in Procs : AddSecretEventHandler(p)
    \/ \E p \in Procs : RemoveSecretEventHandler(p)
    \/ \E p \in Procs : GetSecret(p)
    \/ \E m \in Created : StartInformer(m)
    \/ \E m \in Created : InformerExit(m)

Spec == Init /\ [][Next]_vars

\* ------------------------------- one singleItemMonitor, called directly
CallAddEventHandler(p) ==
    \E accept \in BOOLEAN :
        Call(p, [NoOp EXCEPT !.name = "MAdd", !.mon = TheMonitor, !.accept = accept])

CallRemoveEventHandler(p) ==
    \E reg \in Presentable :
        Call(p, [NoOp EXCEPT !.name = "MRemove", !.mon = TheMonitor, !.reg = reg])

CallStopInformer(p) ==
    Call(p, [NoOp EXCEPT !.name = "MStop", !.mon = TheMonitor])

CallGetItem(p) ==
    Call(p, [NoOp EXCEPT !.name = "MGet", !.mon = TheMonitor])

\* `go monitor.StartInformer()`
GoStartInformer(p) ==
    /\ pc[p] = "idle"
    /\ nCalls < MaxCalls
    /\ loop[TheMonitor] = "none"
    /\ loop' = [loop EXCEPT ![TheMonitor] = "launched"]
    /\ starts' = [starts EXCEPT ![TheMonitor] = @ + 1]
    /\ nCalls' = nCalls + 1
    /\ UNCHANGED <<muxVars, monVars, listeners, synced, store, remote, regVars,
                   pc, op, ret, stopTrue, stopFalse, okAdds, okRemoves,
                   tornDownUnder, logVars>>

\* Mutant: the lock is handed out while another goroutine holds it.
MonitorLockShared(p) ==
    /\ pc[p] = "wait"
    /\ op[p].name \in {"MAdd", "MRemove", "MStop"}
    /\ mlock' = [mlock EXCEPT ![op[p].mon] = p]
    /\ pc' = [pc EXCEPT ![p] = "locked"]
    /\ UNCHANGED <<muxVars, nextMon, mkey, stopped, numHandlers, stopCh, infVars,
                   regVars, op, ret, nCalls, histVars, logVars>>

\* i.lock.Lock()
MonitorLock(p) ==
    /\ pc[p] = "wait"
    /\ op[p].name \in {"MAdd", "MRemove", "MStop"}
    /\ mlock[op[p].mon] = NoProc
    /\ mlock' = [mlock EXCEPT ![op[p].mon] = p]
    /\ pc' = [pc EXCEPT ![p] = "locked"]
    /\ UNCHANGED <<muxVars, nextMon, mkey, stopped, numHandlers, stopCh, infVars,
                   regVars, op, ret, nCalls, histVars, logVars>>

DirectAddEventHandler(p) ==
    /\ pc[p] = "locked"
    /\ op[p].name = "MAdd"
    /\ mlock[op[p].mon] = p
    /\ UNCHANGED mkey
    /\ AddEventHandler(op[p].mon, op[p].accept)
    /\ Return(p, [op[p] EXCEPT !.err = AddEventHandlerErr(op[p].mon, op[p].accept),
                               !.out = AddEventHandlerReg(op[p].mon, op[p].accept)])
    /\ mlock' = [mlock EXCEPT ![op[p].mon] = NoProc]
    /\ UNCHANGED <<muxVars, nextMon, stopped, stopCh, loop, synced, store, remote,
                   starts, stopTrue, stopFalse, okRemoves, tornDownUnder, logging>>

DirectRemoveEventHandler(p) ==
    /\ pc[p] = "locked"
    /\ op[p].name = "MRemove"
    /\ mlock[op[p].mon] = p
    /\ RemoveEventHandler(op[p].mon, op[p].reg)
    /\ Return(p, [op[p] EXCEPT !.err = RemoveEventHandlerErr(op[p].mon, op[p].reg)])
    /\ mlock' = [mlock EXCEPT ![op[p].mon] = NoProc]
    /\ UNCHANGED <<muxVars, nextMon, mkey, stopped, stopCh, loop, synced, store,
                   remote, regVars, starts, stopTrue, stopFalse, okAdds,
                   tornDownUnder, logging>>

DirectStopInformer(p) ==
    /\ pc[p] = "locked"
    /\ op[p].name = "MStop"
    /\ mlock[op[p].mon] = p
    /\ StopInformer(op[p].mon)
    /\ Return(p, [op[p] EXCEPT !.err = IF StopInformerReturns(op[p].mon)
                                        THEN "true" ELSE "false"])
    /\ mlock' = [mlock EXCEPT ![op[p].mon] = NoProc]
    /\ UNCHANGED <<muxVars, nextMon, mkey, numHandlers, infVars, regVars, starts,
                   okAdds, okRemoves, tornDownUnder, logVars>>

\* GetItem takes no lock.
DirectGetItem(p) ==
    /\ pc[p] = "wait"
    /\ op[p].name = "MGet"
    /\ Return(p, [op[p] EXCEPT !.err = IF GetItem(op[p].mon).exists
                                        THEN "ok" ELSE "notfound",
                               !.val = GetItem(op[p].mon).item])
    /\ UNCHANGED <<muxVars, monVars, infVars, regVars, histVars, logVars>>

NextMonitor ==
    \/ \E p \in Procs : CallAddEventHandler(p)
    \/ \E p \in Procs : CallRemoveEventHandler(p)
    \/ \E p \in Procs : CallStopInformer(p)
    \/ \E p \in Procs : CallGetItem(p)
    \/ \E p \in Procs : GoStartInformer(p)
    \/ \E p \in Procs : MonitorLock(p)
    \/ \E p \in Procs : DirectAddEventHandler(p)
    \/ \E p \in Procs : DirectRemoveEventHandler(p)
    \/ \E p \in Procs : DirectStopInformer(p)
    \/ \E p \in Procs : DirectGetItem(p)
    \/ StartInformer(TheMonitor)
    \/ InformerExit(TheMonitor)
    \/ InformerWatch(TheMonitor)
    \/ \E k \in Keys : RemoteChange(k)

SpecMonitor == InitMonitor /\ [][NextMonitor]_vars

\* -------------------- one singleItemMonitor given handlers that log
\* The monitor of TestMonitor: its handlers record what they are handed.
InitEvents ==
    /\ InitCommon
    /\ monitors = [k \in Keys |-> NoMonitor]
    /\ nextMon = 2
    /\ mkey = [m \in MonIds |-> AnyKey]
    /\ remote \in [Keys -> Names \cup {Absent}]
    /\ \A k \in Keys : remote[k] \in Payloads(k) \cup {Absent}
    /\ logging = TRUE

SpecEvents == InitEvents /\ [][NextMonitor]_vars

\* ----------------- the SecretMonitor read while the secrets come and go
\* NewSecretMonitor, the secrets the callers will name existing or not.
InitCache ==
    /\ InitCommon
    /\ monitors = [k \in Keys |-> NoMonitor]
    /\ nextMon = 1
    /\ mkey = [m \in MonIds |-> AnyKey]
    /\ remote \in [Keys -> Names \cup {Absent}]
    /\ \A k \in Keys : remote[k] \in Payloads(k) \cup {Absent}
    /\ logging = FALSE

\* Goroutines adding handlers and reading secrets; the informers list and
\* watch secrets that are created and deleted on the API server.
NextCache ==
    \/ \E p \in Procs : CallAddSecretEventHandler(p)
    \/ \E p \in Procs : CallGetSecret(p)
    \/ \E p \in Procs : Lock(p)
    \/ \E p \in Procs : RLock(p)
    \/ \E p \in Procs : AddSecretEventHandler(p)
    \/ \E p \in Procs : GetSecret(p)
    \/ \E m \in Created : StartInformer(m)
    \/ \E m \in Created : InformerWatch(m)
    \/ \E k \in Keys : RemoteChange(k)

SpecCache == InitCache /\ [][NextCache]_vars

\* ------------------ the SecretMonitor used for secrets of two namespaces
InitAllKeys ==
    /\ InitCommon
    /\ monitors = [k \in AllKeys |-> NoMonitor]
    /\ nextMon = 1
    /\ mkey = [m \in MonIds |-> AnyKey]
    /\ remote = [k \in AllKeys |-> k.Name]
    /\ logging = FALSE

CallAddSecretEventHandlerAllKeys(p) ==
    \E k \in AllKeys, accept \in BOOLEAN :
        Call(p, [NoOp EXCEPT !.name = "Add", !.key = k, !.accept = accept])

NextAllKeys ==
    \/ \E p \in Procs : CallAddSecretEventHandlerAllKeys(p)
    \/ \E p \in Procs : CallRemoveSecretEventHandler(p)
    \/ \E p \in Procs : CallGetSecret(p)
    \/ \E p \in Procs : Lock(p)
    \/ \E p \in Procs : RLock(p)
    \/ \E p \in Procs : AddSecretEventHandler(p)
    \/ \E p \in Procs : RemoveSecretEventHandler(p)
    \/ \E p \in Procs : GetSecret(p)
    \/ \E m \in Created : StartInformer(m)
    \/ \E m \in Created : InformerExit(m)

SpecAllKeys == InitAllKeys /\ [][NextAllKeys]_vars

\* ------------------------------------------------------------ scheduling
\* The Go runtime runs every goroutine that can run: a goroutine blocked on
\* s.lock gets it once it stays free, a method body runs to its return, and
\* an informer goroutine lists, watches and returns when its stopCh is closed.
CallersProgress ==
    \A p \in Procs :
        /\ WF_vars(Lock(p))
        /\ WF_vars(RLock(p))
        /\ WF_vars(AddSecretEventHandler(p))
        /\ WF_vars(RemoveSecretEventHandler(p))
        /\ WF_vars(GetSecret(p))

InformersReturn == \A m \in MonIds : WF_vars(InformerExit(m))

InformersWatch == \A m \in MonIds : WF_vars(InformerWatch(m))

\* Spec with the callers scheduled, and with the informer goroutines scheduled.
SpecCallersFair == Spec /\ CallersProgress

SpecStopFair == Spec /\ InformersReturn

\* SpecCache with the informers' watches scheduled.
SpecCacheFair == SpecCache /\ InformersWatch

\* ======================================================== properties
Idle == \A p \in Procs : pc[p] = "idle"

\* The step in which goroutine p's call of the named method runs and returns.
Returns(p, name) ==
    /\ pc[p] = "locked"
    /\ op[p].name = name
    /\ pc'[p] = "idle"

MonitorsOf(k) == {m \in Created : mkey[m] = k}

\* C1: in every reachable state of Spec there is at most one singleItemMonitor
\* per ObjectKey that has not been stopped.
C1_OneRunningMonitorPerKey ==
    \A m1, m2 \in Created :
        (m1 # m2 /\ mkey[m1] = mkey[m2]) => (stopped[m1] \/ stopped[m2])

\* Two monitors have been created for one key: the first is stopped and the
\* second is the map's entry.
C1_Witness ==
    \E m1, m2 \in Created :
        /\ m1 # m2
        /\ mkey[m1] = mkey[m2]
        /\ stopped[m1]
        /\ ~stopped[m2]
        /\ monitors[mkey[m2]] = m2

\* C2: when every goroutine has called AddSecretEventHandler once, for the same
\* key, not in the map before, with a handler the informer accepts (the calls
\* overlapping in any way), every call has succeeded, one singleItemMonitor has
\* been created, one StartInformer goroutine launched, and numHandlers is the
\* number of callers.
C2_AllAdded(k) ==
    /\ nCalls = Cardinality(Procs)
    /\ \A p \in Procs :
          /\ pc[p] = "idle"
          /\ ret[p].name = "Add"
          /\ ret[p].key = k
          /\ ret[p].accept

C2_ConcurrentFirstAdds ==
    \A k \in Keys :
        C2_AllAdded(k) =>
            /\ \A p \in Procs : ret[p].err = "ok"
            /\ Cardinality(Created) = 1
            /\ \A m \in Created :
                  /\ monitors[k] = m
                  /\ starts[m] = 1
                  /\ numHandlers[m] = Cardinality(Procs)

C2_Witness ==
    \E k \in Keys :
        /\ C2_AllAdded(k)
        /\ \A p \in Procs : ret[p].err = "ok" /\ ~ret[p].out.isNil
        /\ numHandlers[monitors[k]] = Cardinality(Procs)

\* C3: whenever no call is in progress, a key is in the monitors map if and
\* only if its monitor's numHandlers is > 0 and the monitor is not stopped.
C3_KeyPresentIffListeners ==
    Idle =>
        \A k \in Keys :
            IF monitors[k] # NoMonitor
            THEN numHandlers[monitors[k]] > 0 /\ ~stopped[monitors[k]]
            ELSE \A m \in MonitorsOf(k) : ~(numHandlers[m] > 0 /\ ~stopped[m])

\* C4: numHandlers is never negative, and a removal presenting a registration
\* that is not registered with the monitor's informer (the same registration a
\* second time, say) returns an error and leaves numHandlers unchanged.
C4_NeverNegativeExcessRejected ==
    [][/\ \A m \in MonIds : numHandlers'[m] >= 0
       /\ \A p \in Procs :
             ( /\ Returns(p, "Remove")
               /\ ~op[p].reg.isNil
               /\ monitors[op[p].reg.key] # NoMonitor
               /\ op[p].reg.h \notin listeners[monitors[op[p].reg.key]] )
             => (ret'[p].err # "ok" /\ numHandlers' = numHandlers)]_vars

\* C5: numHandlers of every monitor equals the number of listeners registered
\* with its informer, and equals successful adds minus successful removes.
C5_CounterIsListenerCount ==
    \A m \in Created :
        /\ numHandlers[m] = Cardinality(listeners[m])
        /\ numHandlers[m] = okAdds[m] - okRemoves[m]

\* C6: a monitor is stopped, or deleted from the monitors map, only in a step
\* after which no listener is registered with its informer.
C6_TeardownOnlyWithoutListeners ==
    [][\A m \in Created :
          ( \/ (~stopped[m] /\ stopped'[m])
            \/ (monitors[mkey[m]] = m /\ monitors'[mkey[m]] # m) )
          => listeners'[m] = {}]_vars

\* C7: presenting a registration whose owning monitor has been stopped to
\* RemoveSecretEventHandler or GetSecret, a new monitor being in the map for the
\* same key, fails with an error and changes no numHandlers, no stopped flag
\* and no map entry.
C7_StaleRegistrationRejected ==
    [][\A p \in Procs :
          ( /\ (Returns(p, "Remove") \/ Returns(p, "Get"))
            /\ ~op[p].reg.isNil
            /\ op[p].reg.h \in Issued
            /\ stopped[hmon[op[p].reg.h]]
            /\ monitors[op[p].reg.key] # NoMonitor )
          => ( /\ ret'[p].err # "ok"
               /\ numHandlers' = numHandlers
               /\ stopped' = stopped
               /\ monitors' = monitors )]_vars

\* C8: when RemoveSecretEventHandler has had the monitor remove a listener
\* (RemoveEventHandler returned nil) and numHandlers is then 0, the same call
\* stops the monitor and deletes its key; when numHandlers is still positive
\* the monitor stays running and in the map.
C8_TeardownExactlyAtZero ==
    [][\A p \in Procs :
          (Returns(p, "Remove") /\ ret'[p].err = "ok" /\ ret'[p].mon # NoMonitor)
          => LET m == ret'[p].mon
                 k == op[p].reg.key
             IN /\ numHandlers'[m] = 0 =>
                      /\ stopped'[m]
                      /\ stopCh'[m] = "closed"
                      /\ monitors'[k] = NoMonitor
                /\ numHandlers'[m] > 0 =>
                      /\ ~stopped'[m]
                      /\ stopCh'[m] = "open"
                      /\ monitors'[k] = m]_vars

\* A monitor with two listeners lost one and stayed, then lost the other and
\* was stopped and deleted by that call.
C8_Witness ==
    \E p \in Procs :
        /\ ret[p].name = "Remove"
        /\ ret[p].err = "ok"
        /\ ret[p].mon # NoMonitor
        /\ okAdds[ret[p].mon] = 2
        /\ okRemoves[ret[p].mon] = 2
        /\ numHandlers[ret[p].mon] = 0
        /\ stopped[ret[p].mon]
        /\ monitors[ret[p].reg.key] = NoMonitor

\* C9: of all the StopInformer calls made on one monitor, sequential or
\* overlapping, exactly one has returned true, the one that set stopped and
\* closed stopCh, and every other one false.
C9_ExactlyOneStopReturnsTrue ==
    \A m \in MonIds :
        /\ stopTrue[m] <= 1
        /\ (stopTrue[m] + stopFalse[m] >= 1) => stopTrue[m] = 1
        /\ stopTrue[m] = 1 <=> stopped[m]
        /\ stopped[m] <=> stopCh[m] = "closed"

\* Both goroutines have called StopInformer on the monitor: one got true, the
\* other false.
C9_Witness ==
    \E p, q \in Procs :
        /\ ret[p].name = "MStop" /\ ret[p].err = "true"
        /\ ret[q].name = "MStop" /\ ret[q].err = "false"
        /\ stopTrue[TheMonitor] = 1
        /\ stopFalse[TheMonitor] >= 1

\* C10: an AddSecretEventHandler for a key whose monitor was stopped and
\* deleted creates a new singleItemMonitor: a new informer (nothing listed, no
\* listener but the one being added), an open stopCh, stopped = false, one
\* StartInformer goroutine launched, and numHandlers 1 when the informer accepts
\* the handler; and no stopped monitor is ever an entry of the map.
C10_TornDown(k) ==
    /\ monitors[k] = NoMonitor
    /\ \E m \in MonitorsOf(k) : stopped[m]

C10_FreshMonitorAfterTeardown ==
    [][/\ \A p \in Procs :
             (Returns(p, "Add") /\ C10_TornDown(op[p].key))
             => LET m == monitors'[op[p].key]
                IN /\ m \notin Created
                   /\ m \in 1..(nextMon' - 1)
                   /\ mkey'[m] = op[p].key
                   /\ ~stopped'[m]
                   /\ stopCh'[m] = "open"
                   /\ loop'[m] = "launched"
                   /\ starts'[m] = 1
                   /\ ~synced'[m]
                   /\ store'[m] = Absent
                   /\ op[p].accept =>
                         /\ ret'[p].err = "ok"
                         /\ numHandlers'[m] = 1
                         /\ listeners'[m] = {ret'[p].out.h}
       /\ \A k \in Keys :
             monitors'[k] # NoMonitor => ~stopped'[monitors'[k]]]_vars

\* After a teardown, an add for the same key has just returned a registration
\* of a second monitor, which has one listener.
C10_Witness ==
    \E p \in Procs :
        /\ ret[p].name = "Add"
        /\ ret[p].err = "ok"
        /\ \E m1 \in Created :
              /\ m1 < ret[p].mon
              /\ mkey[m1] = ret[p].key
              /\ stopped[m1]
        /\ monitors[ret[p].key] = ret[p].mon
        /\ numHandlers[ret[p].mon] = 1
        /\ listeners[ret[p].mon] = {ret[p].out.h}
        /\ loop[ret[p].mon] = "launched"

\* C11: AddEventHandler on a monitor that is not stopped, the informer
\* accepting the handler, returns a nil error, adds exactly 1 to numHandlers
\* and returns a registration whose GetKey() is the monitor's key; the key of a
\* registration already issued does not change in any step.
C11_AddIncrementsAndKeepsKey ==
    [][/\ \A p \in Procs :
             ( /\ Returns(p, "MAdd")
               /\ ~stopped[op[p].mon]
               /\ InformerAddEventHandlerErr(op[p].mon, op[p].accept) = "ok" )
             => /\ ret'[p].err = "ok"
                /\ numHandlers'[op[p].mon] = numHandlers[op[p].mon] + 1
                /\ ~ret'[p].out.isNil
                /\ ret'[p].out.key = mkey[op[p].mon]
                /\ hkey'[ret'[p].out.h] = mkey[op[p].mon]
       /\ \A h \in Issued : hkey'[h] = hkey[h]]_vars

\* A second handler has been added to a monitor whose key is not the default
\* one: the counter is 2 and both registrations carry the monitor's key.
C11_Witness ==
    \E p \in Procs :
        /\ ret[p].name = "MAdd"
        /\ ret[p].err = "ok"
        /\ mkey[TheMonitor] # AnyKey
        /\ ret[p].out.key = mkey[TheMonitor]
        /\ numHandlers[TheMonitor] = 2
        /\ \A h \in Issued : hkey[h] = mkey[TheMonitor]

\* C12: AddEventHandler on a stopped monitor returns an error and a nil
\* registration, registers nothing with the informer and leaves numHandlers
\* unchanged.
C12_AddOnStoppedRejected ==
    [][\A p \in Procs :
          (Returns(p, "MAdd") /\ stopped[op[p].mon])
          => /\ ret'[p].err # "ok"
             /\ ret'[p].out.isNil
             /\ listeners' = listeners
             /\ numHandlers' = numHandlers
             /\ nextHandle' = nextHandle]_vars

\* A handler the informer would have taken (its Run has not returned) was
\* refused because the monitor is stopped.
C12_Witness ==
    \E p \in Procs :
        /\ ret[p].name = "MAdd"
        /\ ret[p].accept
        /\ ret[p].err = "stopped"
        /\ stopped[TheMonitor]
        /\ loop[TheMonitor] # "exited"
        /\ numHandlers[TheMonitor] = 1

\* C13: RemoveEventHandler on a stopped monitor returns an error (as a return
\* value), unregisters nothing from the informer and leaves numHandlers
\* unchanged.
C13_RemoveOnStoppedRejected ==
    [][\A p \in Procs :
          (Returns(p, "MRemove") /\ stopped[op[p].mon])
          => /\ ret'[p].err \notin {"ok", "panic"}
             /\ listeners' = listeners
             /\ numHandlers' = numHandlers]_vars

\* C14: RemoveEventHandler on a monitor that is not stopped, given a nil
\* registration or one this monitor's informer did not issue, returns an error
\* as a return value, without a panic, and leaves numHandlers unchanged.
C14_InvalidRegistrationRejected ==
    [][\A p \in Procs :
          ( /\ Returns(p, "MRemove")
            /\ ~stopped[op[p].mon]
            /\ \/ op[p].reg.isNil
               \/ op[p].reg.h \notin Issued
               \/ hmon[op[p].reg.h] # op[p].mon )
          => /\ ret'[p].err \notin {"ok", "panic"}
             /\ numHandlers' = numHandlers]_vars

\* C15: RemoveSecretEventHandler and GetSecret given a nil registration return
\* an error, whatever the monitors map holds, and change neither the map nor
\* any numHandlers nor any stopped flag.
C15_NilRegistrationRejected ==
    [][\A p \in Procs :
          ( /\ (Returns(p, "Remove") \/ Returns(p, "Get"))
            /\ op[p].reg.isNil )
          => /\ ret'[p].err \notin {"ok", "panic"}
             /\ ret'[p].val = Absent
             /\ monitors' = monitors
             /\ numHandlers' = numHandlers
             /\ stopped' = stopped]_vars

\* Both methods have refused a nil registration while the key a nil
\* registration would be looked up under has a running monitor in the map.
C15_Witness ==
    \E p, q \in Procs :
        /\ ret[p].name = "Remove" /\ ret[p].reg.isNil /\ ret[p].err = "nil"
        /\ ret[q].name = "Get" /\ ret[q].reg.isNil /\ ret[q].err = "nil"
        /\ monitors[AnyKey] # NoMonitor
        /\ numHandlers[monitors[AnyKey]] = 1
        /\ ~stopped[monitors[AnyKey]]

C18_GetWithoutMonitorFails ==
    [][\A p \in Procs :
          /\ ( /\ Returns(p, "Get")
               /\ ~op[p].reg.isNil
               /\ monitors[op[p].reg.key] = NoMonitor )
             => /\ ret'[p].err = "nomonitor"
                /\ ret'[p].val = Absent
          /\ ( /\ Returns(p, "Get")
               /\ ~op[p].reg.isNil
               /\ monitors[op[p].reg.key] # NoMonitor
               /\ store[monitors[op[p].reg.key]] = Absent )
             => ret'[p].err = "notfound"]_vars

\* One GetSecret ran after the teardown of its registration's monitor and got
\* "monitor doesn't exist"; another ran on a monitor that had not listed yet
\* and got "not found".
C18_Witness ==
    \E p, q \in Procs :
        /\ ret[p].name = "Get" /\ ret[p].err = "nomonitor"
        /\ ret[p].reg.h \in Issued
        /\ stopped[hmon[ret[p].reg.h]]
        /\ ret[q].name = "Get" /\ ret[q].err = "notfound"

\* C19: GetSecret given a registration whose key is in the monitors map, the
\* informer's store holding no object under the key (nothing listed yet, no
\* such secret, or the secret deleted), returns no secret and the "doesn't
\* exist in cache" error; no GetSecret returns a nil error without a secret.
C19_GetAbsentFromCacheFails ==
    [][\A p \in Procs :
          Returns(p, "Get") =>
             /\ ( /\ ~op[p].reg.isNil
                  /\ monitors[op[p].reg.key] # NoMonitor
                  /\ store[monitors[op[p].reg.key]] = Absent )
                => /\ ret'[p].err = "notfound"
                   /\ ret'[p].val = Absent
             /\ ret'[p].err = "ok" => ret'[p].val # Absent]_vars

\* A GetSecret found the secret in the cache and, the secret deleted and the
\* deletion delivered to the store, another for the same key got "not found"
\* (or the other way round, the secret created in between).
C19_Witness ==
    \E p, q \in Procs :
        /\ ret[p].name = "Get" /\ ret[p].err = "notfound"
        /\ ret[q].name = "Get" /\ ret[q].err = "ok"
        /\ ret[p].reg.key = ret[q].reg.key
        /\ ret[p].mon = ret[q].mon
        /\ synced[ret[p].mon]

C24_StartedOnceClosedAtMostOnce ==
    \A m \in MonIds :
        /\ starts[m] = (IF m \in Created THEN 1 ELSE 0)
        /\ (m \in Created) <=> (loop[m] # "none")
        /\ stopTrue[m] <= 1
        /\ stopFalse[m] = 0
        /\ (stopCh[m] = "closed") <=> stopped[m]
        /\ stopped[m] <=> (stopTrue[m] = 1)

\* A monitor was launched, listed its secret, was stopped by the removal of
\* its last listener and its informer has returned.
C24_Witness ==
    \E m \in Created :
        /\ starts[m] = 1
        /\ synced[m]
        /\ stopTrue[m] = 1
        /\ stopCh[m] = "closed"
        /\ loop[m] = "exited"

\* C25: stopped never goes from true to false, and AddEventHandler and
\* RemoveEventHandler on a stopped monitor fail, changing neither numHandlers
\* nor the informer's listeners.
C25_StoppedIsMonotonic ==
    [][/\ \A m \in MonIds : stopped[m] => stopped'[m]
       /\ \A p \in Procs :
             ( /\ (Returns(p, "MAdd") \/ Returns(p, "MRemove"))
               /\ stopped[op[p].mon] )
             => /\ ret'[p].err # "ok"
                /\ numHandlers' = numHandlers
                /\ listeners' = listeners]_vars

\* After the stop, one goroutine failed to add a handler and the other failed
\* to remove a listener that is still registered with the informer.
C25_Witness ==
    \E p, q \in Procs :
        /\ stopped[TheMonitor]
        /\ ret[p].name = "MAdd" /\ ret[p].err = "stopped"
        /\ ret[q].name = "MRemove" /\ ret[q].err = "stopped"
        /\ ret[q].reg.h \in listeners[TheMonitor]

\* C26: an AddSecretEventHandler call in which the monitor's AddEventHandler
\* fails returns the error and a nil registration, changes no numHandlers and
\* no informer's listeners, and changes the monitors map at most by inserting
\* the entry it created: no entry present before is removed or replaced.
C26_FailedAddOnlyInserts ==
    [][\A p \in Procs :
          (Returns(p, "Add") /\ ret'[p].err # "ok")
          => /\ ret'[p].out.isNil
             /\ numHandlers' = numHandlers
             /\ listeners' = listeners
             /\ \A k \in Keys :
                   \/ monitors'[k] = monitors[k]
                   \/ /\ k = op[p].key
                      /\ monitors[k] = NoMonitor
                      /\ monitors'[k] = nextMon]_vars

\* An add the informer refused has returned; the entry for its key, there
\* before the call, is still in the map with its one listener.
C26_Witness ==
    \E p \in Procs :
        /\ ret[p].name = "Add"
        /\ ret[p].err = "informer"
        /\ ret[p].out.isNil
        /\ monitors[ret[p].key] = ret[p].mon
        /\ okAdds[ret[p].mon] = 1
        /\ numHandlers[ret[p].mon] = 1

\* The names of Names that have the form <route>_<secret>, both parts
\* non-empty.
RouteSecretForm == {"r_s"}

\* C27: AddSecretEventHandler returns an error for a secret name that is not
\* of the form <route>_<secret>, and for a name of that form (the informer
\* accepting the handler) succeeds and leaves the key in the monitors map.
C27_NameFormatChecked ==
    [][\A p \in Procs :
          Returns(p, "Add") =>
             IF op[p].key.Name \in RouteSecretForm
             THEN op[p].accept =>
                     /\ ret'[p].err = "ok"
                     /\ monitors'[op[p].key] # NoMonitor
             ELSE ret'[p].err # "ok"]_vars

\* C29: AddSecretEventHandler for a key that is in the monitors map creates no
\* monitor and launches no StartInformer goroutine; the map is unchanged and
\* the handler goes to the monitor already there.  So a monitor with k
\* successful adds and no successful remove is in the map with numHandlers k.
C29_AddReusesMonitor ==
    [][/\ \A p \in Procs :
             (Returns(p, "Add") /\ monitors[op[p].key] # NoMonitor)
             => /\ monitors' = monitors
                /\ nextMon' = nextMon
                /\ starts' = starts
                /\ loop' = loop
                /\ ret'[p].mon = monitors[op[p].key]
                /\ ret'[p].err = "ok" =>
                      /\ ret'[p].out.h \in listeners'[monitors[op[p].key]]
                      /\ numHandlers'[monitors[op[p].key]]
                            = numHandlers[monitors[op[p].key]] + 1
       /\ \A m \in 1..(nextMon' - 1) :
             (okAdds'[m] >= 1 /\ okRemoves'[m] = 0)
             => /\ monitors'[mkey'[m]] = m
                /\ numHandlers'[m] = okAdds'[m]
                /\ starts'[m] = 1]_vars

\* Three successful adds for one key and no remove: one monitor, counter 3.
C29_Witness ==
    \E m \in Created :
        /\ Cardinality(MonitorsOf(mkey[m])) = 1
        /\ monitors[mkey[m]] = m
        /\ okAdds[m] = 3
        /\ okRemoves[m] = 0
        /\ numHandlers[m] = 3
        /\ starts[m] = 1

\* C30: in every state a GetSecret or RemoveSecretEventHandler call can look
\* the map up in, an entry of the map is a monitor whose StartInformer has been
\* launched and whose first listener has been added.
C30_NoHalfCreatedEntry ==
    \A k \in Keys :
        monitors[k] # NoMonitor =>
            /\ loop[monitors[k]] # "none"
            /\ okAdds[monitors[k]] >= 1

\* What a GetSecret for key k would return in the current state.
GetSecretNow(k) ==
    GetSecretResult([NoOp EXCEPT !.name = "Get",
                                 !.reg = secretEventHandlerRegistration(k, BadHandle)])

\* C21: a GetSecret for a key in the monitors map whose informer has not
\* completed its initial list (HasSynced false) returns the "doesn't exist in
\* cache" error; and once HasSynced is true and the secret exists on the API
\* server, GetSecret eventually returns it (unless it is deleted again first).
C21_NotFoundUntilSyncedThenDelivered ==
    /\ [][\A p \in Procs :
             ( /\ Returns(p, "Get")
               /\ ~op[p].reg.isNil
               /\ monitors[op[p].reg.key] # NoMonitor
               /\ ~synced[monitors[op[p].reg.key]] )
             => /\ ret'[p].err = "notfound"
                /\ ret'[p].val = Absent]_vars
    /\ \A k \in Keys :
          ( /\ monitors[k] # NoMonitor
            /\ synced[monitors[k]]
            /\ remote[k] \in Payloads(k) )
          ~> ( \/ /\ GetSecretNow(k).err = "ok"
                  /\ GetSecretNow(k).val \in Payloads(k)
               \/ remote[k] = Absent )

\* A GetSecret before the initial list got "not found"; the list then found
\* no secret, the secret was created, the watch delivered it, and a GetSecret
\* with the same registration returned it.
C21_Witness ==
    \E p, q \in Procs :
        /\ ret[p].name = "Get" /\ ret[p].err = "notfound"
        /\ ret[q].name = "Get" /\ ret[q].err = "ok"
        /\ ret[p].reg = ret[q].reg
        /\ ret[q].val \in Payloads(ret[q].reg.key)
        /\ ret[q].reg.h \in Issued
        /\ synced[ret[q].mon]
        /\ store[ret[q].mon] = remote[ret[q].reg.key]

\* C22: no interleaving of AddSecretEventHandler, RemoveSecretEventHandler and
\* GetSecret calls deadlocks: every call that has started returns; a goroutine
\* inside a method holds s.lock; no monitor's lock is held outside a step of
\* the goroutine holding s.lock; and with no call in progress every lock is
\* free.
C22_NoDeadlock ==
    /\ [](\A p \in Procs :
             pc[p] = "locked" => (lockW = p \/ (lockW = NoProc /\ p \in lockR)))
    /\ [](\A m \in MonIds : mlock[m] = NoProc)
    /\ [](Idle => (lockW = NoProc /\ lockR = {}))
    /\ \A p \in Procs : (pc[p] # "idle") ~> (pc[p] = "idle")

\* A RemoveSecretEventHandler is blocked on s.lock while a GetSecret holds it
\* for reading.
C22_Witness ==
    \E p, q \in Procs :
        /\ pc[p] = "wait" /\ op[p].name = "Remove"
        /\ pc[q] = "locked" /\ op[q].name = "Get"
        /\ q \in lockR
        /\ \E k \in Keys : monitors[k] # NoMonitor

\* C23: once StopInformer has returned true for a monitor, the monitor's
\* informer.Run eventually returns, also when stopCh was closed before the
\* StartInformer goroutine launched at creation had begun to run.
C23_StoppedLoopExits ==
    \A m \in MonIds : (stopTrue[m] = 1) ~> (loop[m] = "exited")

\* The informer of a stopped monitor returned without ever having listed: its
\* stopCh was closed before StartInformer ran.
C23_Witness ==
    \E m \in Created :
        /\ stopTrue[m] = 1
        /\ stopCh[m] = "closed"
        /\ ~synced[m]
        /\ loop[m] = "exited"

\* A handle given out by monitor m whose removal has not returned nil.
Live(h, m) == h \in Issued /\ hmon[h] = m /\ ~Closed(received[h])

\* C28: every notification the informer of a monitor emits is appended, in the
\* order of emission, to the log of each handler added to that monitor and
\* not yet removed, and to no other log; a handler added once the object is
\* in the store starts with an add notification for it; nothing is logged
\* for a handler after its removal has returned nil.
C28_EventsReachLiveHandlers ==
    /\ [][\A m \in MonIds :
              store'[m] # store[m] =>
                  \A h \in Handles :
                      received'[h] =
                          IF Live(h, m)
                          THEN Logged(received[h], Event(store[m], store'[m]))
                          ELSE received[h]]_vars
    /\ [][nextHandle' # nextHandle =>
              received'[nextHandle] =
                  IF store[hmon'[nextHandle]] # Absent THEN <<"add">> ELSE <<>>]_vars
    /\ [](\A h \in Handles :
              \A i \in 1..(Len(received[h]) - 1) : received[h][i] # "removed")

\* Two handlers added after the sync, one removed before the secret is
\* deleted: only the other is told of the deletion.
C28_Witness ==
    \E h1, h2 \in Issued :
        /\ received[h1] = <<"add", "removed">>
        /\ received[h2] = <<"add", "delete">>
        /\ hmon[h1] = hmon[h2]

\* The goroutines inside AddEventHandler, RemoveEventHandler or StopInformer
\* of monitor m, past i.lock.Lock().
InsideMonitor(m) ==
    {p \in Procs : /\ pc[p] = "locked"
                   /\ op[p].name \in {"MAdd", "MRemove", "MStop"}
                   /\ op[p].mon = m}

\* C31: at most one goroutine is inside AddEventHandler, RemoveEventHandler or
\* StopInformer of a monitor, and it holds i.lock; numHandlers changes only in
\* a step of that goroutine, taken while stopped is false; an AddEventHandler
\* overlapping a StopInformer either returns nil with the handler counted on a
\* monitor not yet stopped, or returns an error with nothing counted, and no
\* handler is added to a monitor once it is stopped.
C31_MonitorMethodsExclusive ==
    /\ [](\A m \in MonIds :
              /\ Cardinality(InsideMonitor(m)) <= 1
              /\ \A p \in InsideMonitor(m) : mlock[m] = p)
    /\ [][\A m \in MonIds :
              /\ numHandlers'[m] # numHandlers[m] =>
                     /\ ~stopped[m]
                     /\ ~stopped'[m]
                     /\ \E p \in InsideMonitor(m) : pc'[p] = "idle"
              /\ stopped[m] => /\ okAdds'[m] = okAdds[m]
                               /\ listeners'[m] = listeners[m]]_vars
    /\ [][\A p \in Procs :
              Returns(p, "MAdd") =>
                  \/ /\ ret'[p].err = "ok"
                     /\ ~stopped[op[p].mon]
                     /\ numHandlers'[op[p].mon] = numHandlers[op[p].mon] + 1
                     /\ ret'[p].out.h \in listeners'[op[p].mon]
                  \/ /\ ret'[p].err # "ok"
                     /\ numHandlers' = numHandlers
                     /\ listeners' = listeners]_vars

\* StopInformer holds the lock of the monitor and has not yet set stopped,
\* while the other goroutine is blocked in AddEventHandler on the same lock.
C31_Witness ==
    \E p, q \in Procs :
        /\ pc[p] = "locked" /\ op[p].name = "MStop"
        /\ pc[q] = "wait" /\ op[q].name = "MAdd" /\ op[q].accept
        /\ op[p].mon = op[q].mon
        /\ mlock[op[p].mon] = p
        /\ ~stopped[op[p].mon]
        /\ numHandlers[op[p].mon] = 1

\* The key a call of a SecretMonitor method is about; a nil registration has
\* none.
KeysOfCall(o) ==
    IF o.name = "Add" THEN {o.key}
    ELSE IF o.reg.isNil THEN {} ELSE {o.reg.key}

\* C32: two ObjectKeys are the same key only when both namespace and name are
\* equal, and the step in which an AddSecretEventHandler,
\* RemoveSecretEventHandler or GetSecret call on one key runs leaves, for
\* every other key, the map entry unchanged and every monitor created for it
\* with its numHandlers, stopped flag, stopCh, registered handlers and store
\* unchanged.
C32_OtherKeysUntouched ==
    /\ [](\A k1, k2 \in DOMAIN monitors :
              k1 = k2 <=> (k1.Namespace = k2.Namespace /\ k1.Name = k2.Name))
    /\ [][\A p \in Procs :
              (pc[p] = "locked" /\ pc'[p] = "idle") =>
                  /\ \A k \in DOMAIN monitors \ KeysOfCall(op[p]) :
                         monitors'[k] = monitors[k]
                  /\ \A m \in Created :
                         mkey[m] \notin KeysOfCall(op[p]) =>
                             /\ mkey'[m] = mkey[m]
                             /\ numHandlers'[m] = numHandlers[m]
                             /\ stopped'[m] = stopped[m]
                             /\ stopCh'[m] = stopCh[m]
                             /\ listeners'[m] = listeners[m]
                             /\ store'[m] = store[m]]_vars

\* The monitor of one key has been torn down by a RemoveSecretEventHandler
\* while the key of the same name in the other namespace keeps its monitor,
\* running with its one handler.
C32_Witness ==
    \E p \in Procs, k \in DOMAIN monitors :
        /\ ret[p].name = "Remove"
        /\ ret[p].err = "ok"
        /\ monitors[ret[p].reg.key] = NoMonitor
        /\ \E m \in MonitorsOf(ret[p].reg.key) : stopped[m]
        /\ k.Name = ret[p].reg.key.Name
        /\ k.Namespace # ret[p].reg.key.Namespace
        /\ monitors[k] # NoMonitor
        /\ ~stopped[monitors[k]]
        /\ numHandlers[monitors[k]] = 1

\* C33: with the monitors reached only through AddSecretEventHandler and
\* RemoveSecretEventHandler, no monitor that is an entry of the map is
\* stopped, no AddSecretEventHandler has returned the already-stopped error,
\* and no StopInformer call has returned false.
C33_NoStoppedMonitorInMap ==
    /\ \A k \in Keys : monitors[k] # NoMonitor => ~stopped[monitors[k]]
    /\ \A p \in Procs : ret[p].name = "Add" => ret[p].err # "stopped"
    /\ \A m \in MonIds : stopFalse[m] = 0

\* A monitor was stopped and deleted by RemoveSecretEventHandler, and later
\* calls added a handler to the new monitor of the same key and removed it
\* again: two StopInformer calls, both returning true.
C33_Witness ==
    \E m1, m2 \in Created :
        /\ m1 # m2
        /\ mkey[m1] = mkey[m2]
        /\ stopTrue[m1] = 1 /\ stopTrue[m2] = 1
        /\ okAdds[m1] = 1 /\ okAdds[m2] = 1
        /\ monitors[mkey[m1]] = NoMonitor

\* C34: when m.RemoveEventHandler returns an error inside
\* RemoveSecretEventHandler (the informer refuses the handle, or the monitor is
\* stopped), RemoveSecretEventHandler returns that error and tears nothing
\* down: the map, the stopped flags, the stop channels, the counters and the
\* registered handlers are unchanged.
C34_RemoveErrorNoTeardown ==
    [][\A p \in Procs :
          ( /\ Returns(p, "Remove")
            /\ ~op[p].reg.isNil
            /\ monitors[op[p].reg.key] # NoMonitor
            /\ \/ stopped[monitors[op[p].reg.key]]
               \/ InformerRemoveEventHandlerErr(op[p].reg.h) # "ok" )
          => /\ ret'[p].err = IF stopped[monitors[op[p].reg.key]]
                              THEN "stopped"
                              ELSE InformerRemoveEventHandlerErr(op[p].reg.h)
             /\ ret'[p].err # "ok"
             /\ monitors' = monitors
             /\ stopped' = stopped
             /\ stopCh' = stopCh
             /\ numHandlers' = numHandlers
             /\ listeners' = listeners
             /\ stopTrue' = stopTrue
             /\ stopFalse' = stopFalse]_vars

\* The informer refused the handle of a removal on a monitor whose counter is
\* 0 (its first add had failed): the error came back and the monitor is still
\* in the map, not stopped, its counter still 0.
C34_Witness ==
    \E p \in Procs :
        /\ ret[p].name = "Remove"
        /\ ret[p].err = "informer"
        /\ monitors[ret[p].reg.key] # NoMonitor
        /\ ret[p].mon = monitors[ret[p].reg.key]
        /\ ~stopped[ret[p].mon]
        /\ stopCh[ret[p].mon] = "open"
        /\ numHandlers[ret[p].mon] = 0

\* C35: while a GetSecret is between RLock and RUnlock no
\* RemoveSecretEventHandler is inside its critical section and neither the map
\* nor a stopped flag changes; a GetSecret that finds a monitor reads the
\* store of a monitor that is not stopped; and a GetSecret given a
\* registration a monitor issued, that was waiting for s.lock while a
\* RemoveSecretEventHandler stopped and deleted the monitor of its key,
\* returns the monitor-doesn't-exist error.
C35_GetNeverReadsTornDownMonitor ==
    /\ [](lockW # NoProc => lockR = {})
    /\ [][lockR # {} => (monitors' = monitors /\ stopped' = stopped)]_vars
    /\ [][\A p \in Procs :
              (Returns(p, "Get") /\ ~op[p].reg.isNil) =>
                  /\ monitors[op[p].reg.key] # NoMonitor =>
                         /\ ~stopped[monitors[op[p].reg.key]]
                         /\ ret'[p].val = store[monitors[op[p].reg.key]]
                  /\ (p \in tornDownUnder /\ op[p].reg.h \in Issued) =>
                         /\ ret'[p].err = "nomonitor"
                         /\ ret'[p].val = Absent]_vars

\* A monitor on which no AddEventHandler and no RemoveEventHandler has
\* returned nil: one created by an AddSecretEventHandler whose registration
\* failed.
NeverUsed(m) == m \in Created /\ okAdds[m] = 0 /\ okRemoves[m] = 0

\* C36: the monitor created by a first AddSecretEventHandler whose
\* registration failed is in the map under its key with numHandlers 0, not
\* stopped, its one StartInformer goroutine launched and not returned; and a
\* later AddSecretEventHandler for that key that the informer accepts creates
\* no monitor and registers its handler with that one, whose numHandlers
\* becomes 1.
C36_FailedFirstAddLeavesUsableMonitor ==
    /\ [](\A m \in MonIds :
              NeverUsed(m) =>
                  /\ monitors[mkey[m]] = m
                  /\ numHandlers[m] = 0
                  /\ ~stopped[m]
                  /\ stopCh[m] = "open"
                  /\ starts[m] = 1
                  /\ loop[m] \in {"launched", "running"})
    /\ [][\A p \in Procs :
              ( /\ Returns(p, "Add")
                /\ monitors[op[p].key] # NoMonitor
                /\ NeverUsed(monitors[op[p].key])
                /\ op[p].accept )
              => /\ ret'[p].err = "ok"
                 /\ ret'[p].mon = monitors[op[p].key]
                 /\ monitors' = monitors
                 /\ nextMon' = nextMon
                 /\ starts' = starts
                 /\ hmon'[ret'[p].out.h] = monitors[op[p].key]
                 /\ ret'[p].out.h \in listeners'[monitors[op[p].key]]
                 /\ numHandlers'[monitors[op[p].key]] = 1]_vars

\* The first add for a key has failed and returned, leaving its monitor in
\* the map with its informer synced; an add the informer will accept holds
\* s.lock for that key.
C36_Witness ==
    \E p, q \in Procs :
        /\ ret[q].name = "Add"
        /\ ret[q].err = "informer"
        /\ NeverUsed(ret[q].mon)
        /\ monitors[ret[q].key] = ret[q].mon
        /\ loop[ret[q].mon] = "running"
        /\ pc[p] = "locked"
        /\ op[p].name = "Add"
        /\ op[p].key = ret[q].key
        /\ op[p].accept

\* C37: every monitor that has been created and is not stopped, or whose
\* stopCh is open, is the entry of its own key in the monitors map; an entry
\* leaves the map only in a RemoveSecretEventHandler step that also stops its
\* monitor and closes its stopCh, under s.lock.
C37_NoOrphanedMonitor ==
    /\ [](\A m \in Created :
              (~stopped[m] \/ stopCh[m] = "open") => monitors[mkey[m]] = m)
    /\ [][\A k \in Keys :
              (monitors[k] # NoMonitor /\ monitors'[k] # monitors[k]) =>
                  /\ monitors'[k] = NoMonitor
                  /\ stopped'[monitors[k]]
                  /\ stopCh'[monitors[k]] = "closed"
                  /\ \E p \in Procs : Returns(p, "Remove") /\ lockW = p]_vars

\* One monitor has been stopped and deleted; its key has a new monitor and
\* another key has one too, both running and in the map.
C37_Witness ==
    \E m1, m2, m3 \in Created :
        /\ stopped[m1] /\ loop[m1] = "exited"
        /\ mkey[m2] = mkey[m1] /\ monitors[mkey[m2]] = m2
        /\ mkey[m3] # mkey[m1] /\ monitors[mkey[m3]] = m3
        /\ ~stopped[m2] /\ ~stopped[m3]
        /\ loop[m2] = "running" /\ loop[m3] = "running"

====
